---- MODULE Spec2Model ----
(***************************************************************************)
(* A model of odoorpc's models.py: bound model types (MetaModel / Model    *)
(* classes), recordsets (Model instances), their field cache (_values) and *)
(* pending-write buffer (_values_to_write), the load routine, dynamic RPC  *)
(* dispatch, indexing / iteration / equality, environment rebinding and    *)
(* the += / -= accumulation of relational commands.                        *)
(*                                                                         *)
(* Python objects live in heaps (sequences indexed by reference): two      *)
(* recordsets share a cache exactly when they hold the same reference.     *)
(* The remote side is an external collaborator: every remote call draws    *)
(* its reply from the set of replies the remote side can give.             *)
(***************************************************************************)
EXTENDS Integers, Sequences, FiniteSets, TLC

\* ---------------------------------------------------------------- bounds
MaxId == 2
MaxLen == 2
MaxRecs == 4
MaxObjects == 9

\* ------------------------------------------------------------- constants
\* Python's None where it is used as an identifier (Model.id of an empty
\* recordset, the cache key of the default values).
None == -1
\* Relational command opcodes.
UNLINK == 3
LINK == 4

\* Identifiers a caller can name; 0 is a false-ish scalar for Python.
IdDomain == 0..MaxId
\* Values of a basic field on the remote side.
Val == {"x", "y"}
\* default_get(...).get(field, False)
False == "False"
\* The field catalog (_columns): one basic field, one relational field.
Columns == {"name", "child_ids"}
\* getattr(field, 'relation', False)
Relation(f) == f = "child_ids"
Range(s) == {s[i] : i \in DOMAIN s}
SeqsUpTo(S, n) == UNION {[1..k -> S] : k \in 0..n}
\* A caller's identifier argument: a scalar (kept as a one-element tuple) or
\* a sequence.
Inputs ==
  {[kind |-> "scalar", v |-> <<i>>] : i \in IdDomain}
    \cup {[kind |-> "seq", v |-> s] : s \in SeqsUpTo(IdDomain, MaxLen)}

\* A right-hand operand of += / -=: one record identifier or a list of them
\* (the identifiers of records are positive).
Operands ==
  {[kind |-> "scalar", v |-> <<i>>] : i \in 1..MaxId}
    \cup {[kind |-> "seq", v |-> s] : s \in SeqsUpTo(1..MaxId, MaxLen)}

VARIABLES
  auto_context,   \* _odoo.config['auto_context']
  envs,           \* heap of environments: envs[e] is the context map of e
  classes,        \* heap of bound model types: [name, env]
  recs,           \* heap of recordsets (Model instances)
  caches,         \* heap of _values dicts: {field: {ID: value}}
  writes,         \* heap of _values_to_write dicts: {field: {ID: value}}
  calls,          \* execute_kw invocations issued by the last operation
  last,           \* the last operation: what was called and what it gave
  named           \* history: per identifier, the last installed += / -= naming it

vars == <<auto_context, envs, classes, recs, caches, writes, calls, last, named>>

NoParent == [parent |-> 0, field |-> ""]
NoError == [type |-> "", model |-> "", ids |-> {}]
NoReply == [rows |-> <<>>, defaults |-> <<>>]
Last(op, self, arg, reply, result, error) ==
  [op |-> op, self |-> self, arg |-> arg, reply |-> reply,
   result |-> result, error |-> error, before |-> <<>>]

\* ------------------------------------------------------------ normalizer
\* `not ids`: None, False, 0, '', [] are all false.
Falsy(input) ==
  \/ input.v = <<>>
  \/ input.kind = "scalar" /\ input.v[1] = 0

\* The first occurrence of each element, in order.
RECURSIVE Distinct(_)
Distinct(s) ==
  IF s = <<>> THEN <<>>
  ELSE LET d == Distinct(SubSeq(s, 1, Len(s) - 1))
       IN IF s[Len(s)] \in Range(d) THEN d ELSE Append(d, s[Len(s)])

\* A normalizer that drops repeated identifiers.
NormalizeDistinct(input) == IF Falsy(input) THEN <<>> ELSE Distinct(input.v)

_normalize_ids(input) ==
  IF Falsy(input) THEN <<>>
  ELSE IF input.kind = "scalar" THEN <<input.v[1]>>
  ELSE input.v

\* ----------------------------------------------------- recordset basics
\* Model.id
Id(r) == IF recs[r].ids # <<>> THEN recs[r].ids[1] ELSE None
\* Model.env (instance property)
RecEnv(r) ==
  IF recs[r].env_local # 0 THEN recs[r].env_local
  ELSE classes[recs[r].cls].env
\* bool(recordset): __nonzero__ / __len__
Truthy(r) == Len(recs[r].ids) # 0

\* {field: {}} for every field of the catalog
EmptyDicts == [f \in Columns |-> <<>>]

\* ------------------------------------------------------ dynamic dispatch
execute_kw(name, method, args, kwargs) ==
  [model |-> name, method |-> method, args |-> args, kwargs |-> kwargs]

\* kwargs after the auto-context rule, for a caller whose environment is e
InjectContext(kwargs, e) ==
  IF auto_context /\ "context" \notin DOMAIN kwargs
  THEN [context |-> envs[e]] @@ kwargs
  ELSE kwargs

\* MetaModel.__getattr__'s rpc_method, on the bound model type c
ClassRpc(c, method, args, kwargs) ==
  execute_kw(classes[c].name, method, args, InjectContext(kwargs, classes[c].env))

\* An instance-level rpc_method that injects the context of the class's
\* environment instead of the recordset's own.
RecRpcClassEnv(r, method, args, kwargs) ==
  execute_kw(classes[recs[r].cls].name, method, <<recs[r].ids>> \o args,
             InjectContext(kwargs, classes[recs[r].cls].env))

\* Model.__getattr__'s rpc_method, on the recordset r
RecRpc(r, method, args, kwargs) ==
  execute_kw(classes[recs[r].cls].name, method, <<recs[r].ids>> \o args,
             InjectContext(kwargs, RecEnv(r)))

\* --------------------------------------------------------------- loading
\* The fields _init_values asks the remote read for.
basic_fields == {f \in Columns : ~Relation(f)}

\* What the remote side can answer to read(ids, fields): a row for any part
\* of the requested identifiers, each with a value for every requested field.
ReadReplies(ids, fields) ==
  {[rows |-> rows, defaults |-> <<>>] :
     rows \in UNION {[S -> [fields -> Val]] : S \in SUBSET Range(ids)}}

\* What the remote side can answer to default_get(fields): a default for any
\* part of the fields.
DefaultReplies(fields) ==
  {[rows |-> <<>>, defaults |-> d] :
     d \in UNION {[S -> Val] : S \in SUBSET fields}}

Replies(ids) ==
  IF ids # <<>> THEN ReadReplies(ids, basic_fields) ELSE DefaultReplies(Columns)

\* The invocation _init_values issues for a recordset of class c, identifiers
\* ids, under the context map ctx.
LoadCall(c, ids, ctx) ==
  IF ids # <<>>
  THEN ClassRpc(c, "read", <<ids, basic_fields>>,
                [context |-> ctx, load |-> "_classic_write"])
  ELSE ClassRpc(c, "default_get", <<Columns>>, [context |-> ctx])

\* The cache dict after _init_values stored the reply in it.
LoadedCache(cache, ids, reply) ==
  IF ids # <<>>
  THEN [f \in Columns |->
          [k \in {i \in DOMAIN reply.rows : f \in DOMAIN reply.rows[i]}
             |-> reply.rows[k][f]] @@ cache[f]]
  ELSE [f \in Columns |->
          (None :> (IF f \in DOMAIN reply.defaults
                    THEN reply.defaults[f] ELSE False)) @@ cache[f]]

\* An error set that names every requested identifier once one is missing.
AllRequested(ids, reply) ==
  IF Range(ids) \subseteq DOMAIN reply.rows THEN {} ELSE Range(ids)

\* ids_in_error = set(self.ids) - ids_fetched
ids_in_error(ids, reply) == Range(ids) \ DOMAIN reply.rows

\* The exception _init_values ends with, if any.
LoadError(c, ids, reply) ==
  IF ids # <<>> /\ ids_in_error(ids, reply) # {}
  THEN [type |-> "ValueError", model |-> classes[c].name,
        ids |-> ids_in_error(ids, reply)]
  ELSE NoError

\* _init_values() on the existing recordset r (the revert operation).
_init_values(r, reply) ==
  /\ caches' = [caches EXCEPT ![recs[r].values] =
                  LoadedCache(@, recs[r].ids, reply)]
  /\ calls' = <<LoadCall(recs[r].cls, recs[r].ids, envs[RecEnv(r)])>>
  /\ last' = Last("_init_values", r, <<>>, reply, 0,
                  LoadError(recs[r].cls, recs[r].ids, reply))
  /\ UNCHANGED <<named, auto_context, envs, classes, recs, writes>>

\* How a recordset was obtained (history): the operation and what it was
\* called on.
Made(by, of, arg) == [by |-> by, of |-> of, arg |-> arg]

\* A new recordset object; `made` is history, no code reads it.
Record(c, e, ids, v, w, from_record, made) ==
  [cls |-> c, env_local |-> e, ids |-> ids, values |-> v,
   values_to_write |-> w, from_record |-> from_record, made |-> made]

\* Whether _browse takes its `if iterated:` branch (iterated = 0: not given).
TakesIterated(iterated) == iterated # 0 /\ Truthy(iterated)

\* cls._browse(env, ids, from_record, iterated), env being the environment
\* e of context map ctx: the heaps, the invocations and the outcome after the
\* call; op, self and arg name the caller's operation for `last`. A load that
\* raises leaves no reference to the new object.
_browse(c, e, ctx, input, from_record, iterated, reply, op, self, arg) ==
  LET ids == _normalize_ids(input)
      new == Len(recs) + 1
  IN IF TakesIterated(iterated)
     THEN /\ recs' = Append(recs, Record(c, e, ids, recs[iterated].values,
                                         recs[iterated].values_to_write,
                                         NoParent, Made(op, self, arg)))
          /\ calls' = <<>>
          /\ last' = Last(op, self, arg, NoReply, new, NoError)
          /\ UNCHANGED <<caches, writes>>
     ELSE /\ calls' = <<LoadCall(c, ids, ctx)>>
          /\ IF LoadError(c, ids, reply) = NoError
             THEN /\ recs' = Append(recs, Record(c, e, ids, Len(caches) + 1,
                                                 Len(writes) + 1, from_record,
                                                 Made(op, self, arg)))
                  /\ caches' = Append(caches, LoadedCache(EmptyDicts, ids, reply))
                  /\ writes' = Append(writes, EmptyDicts)
                  /\ last' = Last(op, self, arg, reply, new, NoError)
             ELSE /\ last' = Last(op, self, arg, reply, 0, LoadError(c, ids, reply))
                  /\ UNCHANGED <<recs, caches, writes>>

\* Model.browse(ids) on the bound model type c
browse(c, input, reply) ==
  /\ _browse(c, classes[c].env, envs[classes[c].env], input, NoParent, 0, reply,
             "browse", c, input)
  /\ UNCHANGED <<named, auto_context, envs, classes>>

\* The application drops its recordsets (they are garbage collected).
Release ==
  /\ recs # <<>>
  /\ recs' = <<>>
  /\ caches' = <<>>
  /\ writes' = <<>>
  /\ calls' = <<>>
  /\ last' = Last("release", 0, <<>>, NoReply, 0, NoError)
  /\ UNCHANGED <<named, auto_context, envs, classes>>

\* A basic field descriptor's __set__: the edit goes to the pending-write
\* buffer under the record's id.
FieldWrite(r, f, v) ==
  /\ writes' = [writes EXCEPT ![recs[r].values_to_write][f] = (Id(r) :> v) @@ @]
  /\ calls' = <<>>
  /\ last' = Last("setattr", r, <<f, v>>, NoReply, 0, NoError)
  /\ UNCHANGED <<named, auto_context, envs, classes, recs, caches>>

\* ------------------------------------------------------------------ Init
Init ==
  /\ auto_context = TRUE
  /\ envs = << <<>> >>
  /\ classes = <<[name |-> "res.partner", env |-> 1],
                 [name |-> "res.users", env |-> 1]>>
  /\ recs = <<>>
  /\ caches = <<>>
  /\ writes = <<>>
  /\ calls = <<>>
  /\ last = Last("init", 0, <<>>, NoReply, 0, NoError)
  /\ named = [i \in IdDomain |-> ""]

\* ------------------------------------------- loading one recordset (4.5)
LoadBrowse ==
  /\ recs = <<>>
  /\ \E c \in DOMAIN classes, input \in Inputs :
       \E reply \in Replies(_normalize_ids(input)) : browse(c, input, reply)

LoadAgain ==
  \E r \in DOMAIN recs : \E reply \in Replies(recs[r].ids) : _init_values(r, reply)

LoadEdit ==
  \E r \in DOMAIN recs, f \in basic_fields, v \in Val : FieldWrite(r, f, v)

NextLoad == LoadBrowse \/ LoadAgain \/ LoadEdit \/ Release

SpecLoad == Init /\ [][NextLoad]_vars

\* ------------------------------------------ relational accumulation (4.6)
InternalError == [type |-> "InternalError", model |-> "", ids |-> {}]

\* list.remove(x): the first occurrence goes.
RECURSIVE Remove(_, _)
Remove(values, x) ==
  IF values = <<>> THEN <<>>
  ELSE IF Head(values) = x THEN Tail(values)
  ELSE <<Head(values)>> \o Remove(Tail(values), x)

\* A += loop turn that never cancels the pending unlink.
LinkKeepsUnlink(values, id) ==
  IF <<LINK, id>> \notin Range(values) THEN Append(values, <<LINK, id>>) ELSE values

\* One turn of __iadd__'s loop.
Link(values, id) ==
  LET v == IF <<UNLINK, id>> \in Range(values)
           THEN Remove(values, <<UNLINK, id>>) ELSE values
  IN IF <<LINK, id>> \notin Range(v) THEN Append(v, <<LINK, id>>) ELSE v

\* A -= loop turn that never cancels the pending link.
UnlinkKeepsLink(values, id) ==
  IF <<UNLINK, id>> \notin Range(values) THEN Append(values, <<UNLINK, id>>) ELSE values

\* One turn of __isub__'s loop.
Unlink(values, id) ==
  LET v == IF <<LINK, id>> \in Range(values)
           THEN Remove(values, <<LINK, id>>) ELSE values
  IN IF <<UNLINK, id>> \notin Range(v) THEN Append(v, <<UNLINK, id>>) ELSE v

RECURSIVE LinkAll(_, _)
LinkAll(values, ids) ==
  IF ids = <<>> THEN values ELSE LinkAll(Link(values, Head(ids)), Tail(ids))

RECURSIVE UnlinkAll(_, _)
UnlinkAll(values, ids) ==
  IF ids = <<>> THEN values ELSE UnlinkAll(Unlink(values, Head(ids)), Tail(ids))

\* The right-hand operand as a list: list(records), or [records] for a
\* scalar; no emptiness test here, the scalar 0 is the list [0].
Operand(input) == input.v

\* fields.records2ids on a list of identifiers: an identifier is kept as it is.
records2ids(records) == records

\* parent._values_to_write[field.name]
updated_values(r) ==
  writes[recs[recs[r].from_record.parent].values_to_write][recs[r].from_record.field]

\* The list the loop starts from: a copy of the stored list if there is a
\* non-empty one, else a new empty list.
StartValues(r) ==
  LET k == Id(recs[r].from_record.parent)
  IN IF k \in DOMAIN updated_values(r) /\ updated_values(r)[k] # <<>>
     THEN updated_values(r)[k] ELSE <<>>

\* The buffers after an accumulation that edits the stored list itself.
BuffersEditedInPlace(r, result) ==
  LET p == recs[r].from_record.parent
      k == Id(p)
  IN IF k \in DOMAIN updated_values(r) /\ updated_values(r)[k] # <<>>
     THEN [writes EXCEPT ![recs[p].values_to_write][recs[r].from_record.field][k] = result]
     ELSE writes

\* The buffers after an accumulation: the loop edits a copy ([:]), the
\* stored list is left as it was.
BuffersAfter(r, result) == writes

\* The body shared by __iadd__ and __isub__, result being the looped list.
Accumulate(op, r, input, result) ==
  /\ IF recs[r].from_record = NoParent
     THEN /\ last' = Last(op, r, input, NoReply, 0, InternalError)
          /\ writes' = writes
     ELSE /\ last' = Last(op, r, input, NoReply, result, NoError)
          /\ writes' = BuffersAfter(r, result)
  /\ calls' = <<>>
  /\ UNCHANGED <<named, auto_context, envs, classes, recs, caches>>

\* recordset.__iadd__(records)
__iadd__(r, input) ==
  Accumulate("__iadd__", r, input,
             IF recs[r].from_record = NoParent THEN <<>>
             ELSE LinkAll(StartValues(r), records2ids(Operand(input))))

\* recordset.__isub__(records)
__isub__(r, input) ==
  Accumulate("__isub__", r, input,
             IF recs[r].from_record = NoParent THEN <<>>
             ELSE UnlinkAll(StartValues(r), records2ids(Operand(input))))

\* The relational field descriptor's __set__ that ends `child += x` and
\* `child -= x`: the returned commands become the parent's pending list.
Install ==
  /\ last.op \in {"__iadd__", "__isub__"}
  /\ last.error = NoError
  /\ LET r == last.self
         p == recs[r].from_record.parent
     IN /\ writes' = [writes EXCEPT
                        ![recs[p].values_to_write][recs[r].from_record.field] =
                          (Id(p) :> last.result) @@ @]
        /\ last' = [Last("__set__", r, [op |-> last.op, ids |-> Operand(last.arg)],
                         NoReply, last.result, NoError)
                      EXCEPT !.before = StartValues(r)]
        /\ named' = [i \in IdDomain |->
                       IF i \in Range(Operand(last.arg)) THEN last.op ELSE named[i]]
  /\ calls' = <<>>
  /\ UNCHANGED <<auto_context, envs, classes, recs, caches>>

\* After `parent = Partner.browse(1)` and `child = parent.child_ids`: the
\* child recordset was made by _browse with from_record = (parent, field),
\* here for a parent with no child yet.
InitAccum ==
  /\ auto_context = TRUE
  /\ envs = << <<>> >>
  /\ classes = <<[name |-> "res.partner", env |-> 1],
                 [name |-> "res.users", env |-> 1]>>
  /\ recs = <<Record(1, 1, <<1>>, 1, 1, NoParent, Made("browse", 1, <<>>)),
              Record(1, 1, <<>>, 2, 2, [parent |-> 1, field |-> "child_ids"],
                     Made("__get__", 1, <<>>))>>
  /\ caches = <<[name |-> (1 :> "x"), child_ids |-> <<>>],
                [f \in Columns |-> (None :> False)]>>
  /\ writes = <<EmptyDicts, EmptyDicts>>
  /\ calls = <<>>
  /\ last = Last("init", 0, <<>>, NoReply, 0, NoError)
  /\ named = [i \in IdDomain |-> ""]

AccumAdd == \E r \in DOMAIN recs, input \in Operands : __iadd__(r, input)

AccumSub == \E r \in DOMAIN recs, input \in Operands : __isub__(r, input)

NextAccum == AccumAdd \/ AccumSub \/ Install

SpecAccum == InitAccum /\ [][NextAccum]_vars

\* ------------------------------------------------ dynamic dispatch (4.4)
\* Method names an application asks for; a leading underscore is private.
Methods == {"search", "unlink", "_private"}
Private(method) == method = "_private"
\* Positional and keyword arguments an application passes.
ArgLists == {<<>>, <<"arg">>}
KwargMaps ==
  {<<>>, [limit |-> 1], [context |-> <<>>], [context |-> [b |-> 2], limit |-> 1]}
\* What execute_kw returns.
Results == {"r1", "r2"}

AttributeError == [type |-> "AttributeError", model |-> "", ids |-> {}]

\* getattr(c, method)(*args, **kwargs) on the bound model type c
ClassCall(c, method, args, kwargs, result) ==
  /\ IF Private(method)
     THEN /\ calls' = <<>>
          /\ last' = Last("rpc", c, [level |-> "class", method |-> method,
                                     args |-> args, kwargs |-> kwargs],
                          NoReply, 0, AttributeError)
     ELSE /\ calls' = <<ClassRpc(c, method, args, kwargs)>>
          /\ last' = Last("rpc", c, [level |-> "class", method |-> method,
                                     args |-> args, kwargs |-> kwargs],
                          result, result, NoError)
  /\ UNCHANGED <<named, auto_context, envs, classes, recs, caches, writes>>

\* getattr(r, method)(*args, **kwargs) on the recordset r
RecCall(r, method, args, kwargs, result) ==
  /\ IF Private(method)
     THEN /\ calls' = <<>>
          /\ last' = Last("rpc", r, [level |-> "instance", method |-> method,
                                     args |-> args, kwargs |-> kwargs],
                          NoReply, 0, AttributeError)
     ELSE /\ calls' = <<RecRpc(r, method, args, kwargs)>>
          /\ last' = Last("rpc", r, [level |-> "instance", method |-> method,
                                     args |-> args, kwargs |-> kwargs],
                          result, result, NoError)
  /\ UNCHANGED <<named, auto_context, envs, classes, recs, caches, writes>>

\* odoo.config['auto_context'] = b
SetAutoContext(b) ==
  /\ auto_context # b
  /\ auto_context' = b
  /\ calls' = <<>>
  /\ last' = Last("config", 0, <<>>, NoReply, 0, NoError)
  /\ UNCHANGED <<named, envs, classes, recs, caches, writes>>

\* A session after
\*   Partner2 = Partner.with_context(a=1)
\*   r1 = Partner.browse([1, 2]); r2 = r1.with_env(Partner2.env)
\*   r3 = Users.browse([])
InitSession ==
  /\ auto_context = TRUE
  /\ envs = << <<>>, [a |-> 1] >>
  /\ classes = <<[name |-> "res.partner", env |-> 1],
                 [name |-> "res.users", env |-> 1],
                 [name |-> "res.partner", env |-> 2]>>
  /\ recs = <<Record(1, 1, <<1, 2>>, 1, 1, NoParent, Made("browse", 1, <<>>)),
              Record(1, 2, <<1, 2>>, 2, 2, NoParent, Made("with_env", 1, <<>>)),
              Record(2, 1, <<>>, 3, 3, NoParent, Made("browse", 2, <<>>))>>
  /\ caches = <<[name |-> (1 :> "x") @@ (2 :> "y"), child_ids |-> <<>>],
                [name |-> (1 :> "x") @@ (2 :> "y"), child_ids |-> <<>>],
                [f \in Columns |-> (None :> False)]>>
  /\ writes = <<EmptyDicts, EmptyDicts, EmptyDicts>>
  /\ calls = <<>>
  /\ last = Last("init", 0, <<>>, NoReply, 0, NoError)
  /\ named = [i \in IdDomain |-> ""]

RpcOnClass ==
  \E c \in DOMAIN classes, method \in Methods, args \in ArgLists,
     kwargs \in KwargMaps, result \in Results :
    ClassCall(c, method, args, kwargs, result)

RpcOnRecordset ==
  \E r \in DOMAIN recs, method \in Methods, args \in ArgLists,
     kwargs \in KwargMaps, result \in Results :
    RecCall(r, method, args, kwargs, result)

Configure == \E b \in BOOLEAN : SetAutoContext(b)

NextRpc == RpcOnClass \/ RpcOnRecordset \/ Configure

SpecRpc == InitSession /\ [][NextRpc]_vars

\* ----------------------------------------------- claims on dynamic dispatch
\* C6: a non-underscore method called on a recordset issues exactly one
\* invocation with the entity name, the method name, the recordset's ids
\* followed by the caller's positional arguments, and the keyword arguments;
\* on a bound model type no identifier list is prepended. A `context`
\* keyword equal to the caller's own environment context is added exactly
\* when auto-context is on and the caller gave none; a given one is passed
\* unchanged; the remote result is returned as it is.
C6_DynamicDispatch ==
  (last.op = "rpc" /\ ~Private(last.arg.method))
  => LET own == IF last.arg.level = "instance"
                THEN envs[recs[last.self].env_local]
                ELSE envs[classes[last.self].env]
         name == IF last.arg.level = "instance"
                 THEN classes[recs[last.self].cls].name
                 ELSE classes[last.self].name
         given == last.arg.kwargs
     IN /\ Len(calls) = 1
        /\ calls[1].model = name
        /\ calls[1].method = last.arg.method
        /\ calls[1].args = IF last.arg.level = "instance"
                           THEN <<recs[last.self].ids>> \o last.arg.args
                           ELSE last.arg.args
        /\ \A k \in DOMAIN given : k \in DOMAIN calls[1].kwargs
                                     /\ calls[1].kwargs[k] = given[k]
        /\ \A k \in DOMAIN calls[1].kwargs : k \in DOMAIN given \/ k = "context"
        /\ ("context" \in DOMAIN calls[1].kwargs /\ "context" \notin DOMAIN given)
             <=> (auto_context /\ "context" \notin DOMAIN given)
        /\ (auto_context /\ "context" \notin DOMAIN given)
             => calls[1].kwargs["context"] = own
        /\ last.error = NoError
        /\ last.result = last.reply

\* C6's case: r2 (rebound to the context {a: 1}) called with a positional
\* argument and no context keyword while auto-context is on.
C6_Witness ==
  /\ last.op = "rpc"
  /\ last.arg.level = "instance"
  /\ last.self = 2
  /\ auto_context
  /\ Len(calls) = 1
  /\ calls[1].args = << <<1, 2>>, "arg" >>
  /\ calls[1].kwargs = [context |-> [a |-> 1], limit |-> 1]

\* -------------------------------------------- environment rebinding (4.3)
\* Keyword overrides and explicit base contexts an application passes.
Overrides == {<<>>, [a |-> 1], [a |-> 2]}
BaseArgs == {<<>>, << [a |-> 1, b |-> 2] >>}

\* dict(base, **kwargs): the keyword arguments win on a key collision.
MergedContext(base, kwargs) == kwargs @@ base

\* Environment.__call__(context=context): a new environment; the old one is
\* left as it was.
NewEnv(context) == Append(envs, context)

\* A with_env that rebinds the class it is called on.
RebindInPlace(c, e) == [classes EXCEPT ![c].env = e]

\* Model.with_env(env) on the bound model type c: the heap of classes after
\* type(cls.__name__, cls.__bases__, dict(cls.__dict__)) got its _env.
Rebind(c, e) == Append(classes, [name |-> classes[c].name, env |-> e])

\* Model.with_env(env) on the bound model type c
with_env(c, e) ==
  /\ classes' = Rebind(c, e)
  /\ calls' = <<>>
  /\ last' = Last("with_env", c, [level |-> "class", env |-> e],
                  NoReply, Len(classes'), NoError)
  /\ UNCHANGED <<named, auto_context, envs, recs, caches, writes>>

\* Model.with_context(*args, **kwargs) on the bound model type c
with_context(c, args, kwargs) ==
  LET context == MergedContext(IF args # <<>> THEN args[1]
                               ELSE envs[classes[c].env], kwargs)
  IN /\ envs' = NewEnv(context)
     /\ classes' = Rebind(c, Len(envs'))
     /\ calls' = <<>>
     /\ last' = Last("with_context", c,
                     [level |-> "class", args |-> args, kwargs |-> kwargs],
                     NoReply, Len(classes'), NoError)
     /\ UNCHANGED <<named, auto_context, recs, caches, writes>>

\* recordset.with_env(env): Model._with_env
_with_env(r, e, reply) ==
  /\ _browse(recs[r].cls, e, envs[e], [kind |-> "seq", v |-> recs[r].ids],
             NoParent, 0, reply, "with_env", r, [level |-> "instance", env |-> e])
  /\ UNCHANGED <<named, auto_context, envs, classes>>

\* recordset.with_context(*args, **kwargs): Model._with_context
_with_context(r, args, kwargs, reply) ==
  LET context == MergedContext(IF args # <<>> THEN args[1]
                               ELSE envs[RecEnv(r)], kwargs)
  IN /\ envs' = NewEnv(context)
     /\ _browse(recs[r].cls, Len(envs'), context,
                [kind |-> "seq", v |-> recs[r].ids], NoParent, 0, reply,
                "with_context", r,
                [level |-> "instance", args |-> args, kwargs |-> kwargs])
     /\ UNCHANGED <<named, auto_context, classes>>

\* A session after
\*   Partner1 = Partner.with_context(a=1); rs = Partner.browse([1])
InitBind ==
  /\ auto_context = TRUE
  /\ envs = << <<>>, [a |-> 1] >>
  /\ classes = <<[name |-> "res.partner", env |-> 1],
                 [name |-> "res.users", env |-> 1],
                 [name |-> "res.partner", env |-> 2]>>
  /\ recs = <<Record(1, 1, <<1>>, 1, 1, NoParent, Made("browse", 1, <<>>))>>
  /\ caches = <<[name |-> (1 :> "x"), child_ids |-> <<>>]>>
  /\ writes = <<EmptyDicts>>
  /\ calls = <<>>
  /\ last = Last("init", 0, <<>>, NoReply, 0, NoError)
  /\ named = [i \in IdDomain |-> ""]

\* Whether the session may hold n more objects (environments, bound model
\* types, recordsets).
RoomFor(n) == Len(envs) + Len(classes) + Len(recs) + n <= MaxObjects

BindClassEnv ==
  /\ RoomFor(1)
  /\ \E c \in DOMAIN classes, e \in DOMAIN envs : with_env(c, e)

BindClassContext ==
  /\ RoomFor(2)
  /\ \E c \in DOMAIN classes, args \in BaseArgs, kwargs \in Overrides :
       with_context(c, args, kwargs)

BindRecEnv ==
  /\ RoomFor(1)
  /\ \E r \in DOMAIN recs, e \in DOMAIN envs :
       \E reply \in Replies(recs[r].ids) : _with_env(r, e, reply)

BindRecContext ==
  /\ RoomFor(2)
  /\ \E r \in DOMAIN recs, args \in BaseArgs, kwargs \in Overrides :
       \E reply \in Replies(recs[r].ids) : _with_context(r, args, kwargs, reply)

NextBind == BindClassEnv \/ BindClassContext \/ BindRecEnv \/ BindRecContext

SpecBind == InitBind /\ [][NextBind]_vars

\* -------------------------------------------------- claims on rebinding
\* The context the claim expects of with_context's result: the base with the
\* overrides laid over it.
ExpectedContext(base, overrides) ==
  [k \in DOMAIN base \cup DOMAIN overrides |->
     IF k \in DOMAIN overrides THEN overrides[k] ELSE base[k]]

\* C8: with_context and with_env never change what they are called on, nor
\* any other environment, bound model type, recordset, cache or buffer; the
\* value returned is a new one with the same entity (and, for a recordset,
\* the same identifiers), bound to the given environment (with_env) or to a
\* context equal to the base context (the first positional argument if
\* given, else the caller's current context) with the overrides laid over.
C8_RebindingFrame ==
  [][last'.op \in {"with_context", "with_env"} =>
       /\ \A e \in DOMAIN envs : e \in DOMAIN envs' /\ envs'[e] = envs[e]
       /\ \A c \in DOMAIN classes : c \in DOMAIN classes' /\ classes'[c] = classes[c]
       /\ \A r \in DOMAIN recs : r \in DOMAIN recs' /\ recs'[r] = recs[r]
       /\ \A k \in DOMAIN caches : k \in DOMAIN caches' /\ caches'[k] = caches[k]
       /\ \A k \in DOMAIN writes : k \in DOMAIN writes' /\ writes'[k] = writes[k]
       /\ last'.error = NoError =>
            LET own == IF last'.arg.level = "class"
                       THEN envs[classes[last'.self].env]
                       ELSE envs[recs[last'.self].env_local]
                expected ==
                  IF last'.op = "with_env" THEN envs[last'.arg.env]
                  ELSE ExpectedContext(IF last'.arg.args # <<>>
                                       THEN last'.arg.args[1] ELSE own,
                                       last'.arg.kwargs)
            IN IF last'.arg.level = "class"
               THEN /\ last'.result \in DOMAIN classes' \ DOMAIN classes
                    /\ classes'[last'.result].name = classes[last'.self].name
                    /\ envs'[classes'[last'.result].env] = expected
               ELSE /\ last'.result \in DOMAIN recs' \ DOMAIN recs
                    /\ recs'[last'.result].cls = recs[last'.self].cls
                    /\ recs'[last'.result].ids = recs[last'.self].ids
                    /\ envs'[recs'[last'.result].env_local] = expected]_vars

\* C8's case: Partner.with_context(a=1).with_context(a=2): the second result
\* has a = 2, the first still has a = 1, Partner still has its empty context.
C8_Witness ==
  /\ last.op = "with_context"
  /\ last.self = 3
  /\ last.arg = [level |-> "class", args |-> <<>>, kwargs |-> [a |-> 2]]
  /\ last.result = 4
  /\ envs[classes[1].env] = <<>>
  /\ envs[classes[3].env] = [a |-> 1]
  /\ envs[classes[4].env] = [a |-> 2]

\* --------------------------------- indexing, iteration, equality (4.7)
IndexError == [type |-> "IndexError", model |-> "", ids |-> {}]

\* The position self._ids[key] reads for an integer key (a negative key
\* counts from the end).
Position(ids, key) == IF key < 0 THEN Len(ids) + key + 1 ELSE key + 1

\* self._ids[i:j] for 0 <= i, j
Slice(ids, i, j) ==
  SubSeq(ids, i + 1, IF j < Len(ids) THEN j ELSE Len(ids))

\* What the remote side can answer while a view of r is made: nothing is
\* asked when _browse takes its iterated branch.
ViewReplies(r, input) ==
  IF TakesIterated(r) THEN {NoReply} ELSE Replies(_normalize_ids(input))

\* recordset[key] for an integer key
GetItemInt(r, key, reply) ==
  /\ IF Position(recs[r].ids, key) \in DOMAIN recs[r].ids
     THEN _browse(recs[r].cls, RecEnv(r), envs[RecEnv(r)],
                  [kind |-> "scalar", v |-> <<recs[r].ids[Position(recs[r].ids, key)]>>],
                  NoParent, r, reply, "__getitem__", r,
                  [kind |-> "int", key |-> <<key>>])
     ELSE /\ last' = Last("__getitem__", r, [kind |-> "int", key |-> <<key>>],
                          NoReply, 0, IndexError)
          /\ calls' = <<>>
          /\ UNCHANGED <<recs, caches, writes>>
  /\ UNCHANGED <<named, auto_context, envs, classes>>

\* recordset[i:j]
GetItemSlice(r, i, j, reply) ==
  /\ _browse(recs[r].cls, RecEnv(r), envs[RecEnv(r)],
             [kind |-> "seq", v |-> Slice(recs[r].ids, i, j)],
             NoParent, r, reply, "__getitem__", r,
             [kind |-> "slice", key |-> <<i, j>>])
  /\ UNCHANGED <<named, auto_context, envs, classes>>

\* The k-th recordset that iter(recordset) yields.
__iter__(r, k, reply) ==
  /\ _browse(recs[r].cls, RecEnv(r), envs[RecEnv(r)],
             [kind |-> "scalar", v |-> <<recs[r].ids[k]>>],
             NoParent, r, reply, "__iter__", r, [kind |-> "nth", key |-> <<k>>])
  /\ UNCHANGED <<named, auto_context, envs, classes>>

\* a == b for two recordsets: the same class object and the same id.
__eq__(a, b) == recs[b].cls = recs[a].cls /\ Id(a) = Id(b)

\* a != b
__ne__(a, b) == recs[b].cls # recs[a].cls \/ Id(a) # Id(b)

RoomForRecord == Len(recs) < MaxRecs

\* A session after `r1 = Partner.browse([1, 2]); r2 = Users.browse([])`.
InitView ==
  /\ auto_context = TRUE
  /\ envs = << <<>> >>
  /\ classes = <<[name |-> "res.partner", env |-> 1],
                 [name |-> "res.users", env |-> 1]>>
  /\ recs = <<Record(1, 1, <<1, 2>>, 1, 1, NoParent, Made("browse", 1, <<>>)),
              Record(2, 1, <<>>, 2, 2, NoParent, Made("browse", 2, <<>>))>>
  /\ caches = <<[name |-> (1 :> "x") @@ (2 :> "y"), child_ids |-> <<>>],
                [f \in Columns |-> (None :> False)]>>
  /\ writes = <<EmptyDicts, EmptyDicts>>
  /\ calls = <<>>
  /\ last = Last("init", 0, <<>>, NoReply, 0, NoError)
  /\ named = [i \in IdDomain |-> ""]

ViewBrowse ==
  /\ Len(recs) = 2
  /\ \E c \in DOMAIN classes, input \in Inputs :
       \E reply \in Replies(_normalize_ids(input)) : browse(c, input, reply)

ViewIndex ==
  /\ RoomForRecord
  /\ \E r \in DOMAIN recs, key \in (0 - MaxLen)..(MaxLen - 1) :
       \E reply \in ViewReplies(r, [kind |-> "scalar", v |-> <<1>>]) :
         GetItemInt(r, key, reply)

ViewSlice ==
  /\ RoomForRecord
  /\ \E r \in DOMAIN recs, i \in 0..MaxLen, j \in 0..MaxLen :
       \E reply \in ViewReplies(r, [kind |-> "seq", v |-> Slice(recs[r].ids, i, j)]) :
         GetItemSlice(r, i, j, reply)

ViewIter ==
  /\ RoomForRecord
  /\ \E r \in DOMAIN recs : \E k \in DOMAIN recs[r].ids : __iter__(r, k, NoReply)

ViewRebind ==
  /\ Len(classes) = 2
  /\ \E c \in DOMAIN classes, e \in DOMAIN envs : with_env(c, e)

NextView == ViewRebind \/ ViewBrowse \/ ViewIndex \/ ViewSlice \/ ViewIter

SpecView == InitView /\ [][NextView]_vars

\* --------------------------------------- claims on views and equality
\* The recordsets made by indexing or iterating.
Views == {v \in DOMAIN recs : recs[v].made.by \in {"__getitem__", "__iter__"}}

\* C4: a recordset made from an origin by integer indexing, slicing or
\* iteration holds the origin's cache and pending-write buffer, whatever the
\* number of identifiers of the origin, and making it issues no remote call;
\* rs[0] equals the first recordset that iterating rs yields.
C4_ViewsShareStorage ==
  /\ \A v \in Views :
       /\ recs[v].values = recs[recs[v].made.of].values
       /\ recs[v].values_to_write = recs[recs[v].made.of].values_to_write
  /\ last.op \in {"__getitem__", "__iter__"} => calls = <<>>
  /\ \A v, w \in Views :
       (/\ recs[v].made.of = recs[w].made.of
        /\ recs[v].made.arg = [kind |-> "int", key |-> <<0>>]
        /\ recs[w].made.arg = [kind |-> "nth", key |-> <<1>>])
       => __eq__(v, w)

\* The primary identifier of a recordset, read off its ids.
Primary(r) == IF Len(recs[r].ids) = 0 THEN None ELSE recs[r].ids[1]

\* C5: two recordsets are equal exactly when they have the same entity name
\* and the same primary identifier, however each was obtained; != is the
\* negation of ==.
C5_EqualityByNameAndId ==
  \A a, b \in DOMAIN recs :
    /\ __eq__(a, b) <=>
         (/\ classes[recs[a].cls].name = classes[recs[b].cls].name
          /\ Primary(a) = Primary(b))
    /\ __ne__(a, b) <=> ~__eq__(a, b)

\* ------------------------------------------------- claims on accumulation
\* The pending command lists held for the relational field.
PendingLists ==
  UNION {{writes[w]["child_ids"][k] : k \in DOMAIN writes[w]["child_ids"]} :
           w \in DOMAIN writes}

\* C1: a pending command list never holds both link (4, id) and unlink
\* (3, id) for one identifier, and never holds a command twice.
C1_LinkUnlinkExclusive ==
  \A l \in PendingLists :
    /\ \A i, j \in DOMAIN l : i # j => l[i] # l[j]
    /\ \A id \in IdDomain : ~(<<4, id>> \in Range(l) /\ <<3, id>> \in Range(l))

\* C1's case: `child += [1, 2]` then `child -= [1]`, installed: the link of
\* 1 was cancelled, the link of 2 stays.
C1_Witness ==
  /\ last.op = "__set__"
  /\ last.arg = [op |-> "__isub__", ids |-> <<1>>]
  /\ last.before = << <<4, 1>>, <<4, 2>> >>
  /\ PendingLists = {<< <<4, 2>>, <<3, 1>> >>}

\* C2: the last installed operation on an identifier wins: the pending list
\* holds (4, id) and no (3, id) if it was +=, (3, id) and no (4, id) if it
\* was -=, and neither for an identifier no operation named.
C2_LastOperationWins ==
  \A l \in PendingLists \cup (IF PendingLists = {} THEN {<<>>} ELSE {}) :
    \A id \in IdDomain :
      /\ named[id] = "__iadd__" => <<4, id>> \in Range(l) /\ <<3, id>> \notin Range(l)
      /\ named[id] = "__isub__" => <<3, id>> \in Range(l) /\ <<4, id>> \notin Range(l)
      /\ named[id] = "" => <<3, id>> \notin Range(l) /\ <<4, id>> \notin Range(l)

\* C2's case: `child += [2]` installed, then `child -= [2]` installed: only
\* the unlink of 2 is left.
C2_Witness ==
  /\ last.op = "__set__"
  /\ last.arg = [op |-> "__isub__", ids |-> <<2>>]
  /\ last.before = << <<4, 2>> >>
  /\ PendingLists = {<< <<3, 2>> >>}
  /\ named[2] = "__isub__"

\* C9: a += or -= call on a recordset without a (parent, field)
\* back-reference fails with InternalError whatever the operand; with one it
\* returns a command list; in both cases every cache and every pending-write
\* buffer, the parent's stored list included, is as before the call.
C9_AccumulateFrame ==
  [][last'.op \in {"__iadd__", "__isub__"} =>
       /\ caches' = caches
       /\ writes' = writes
       /\ recs[last'.self].from_record = NoParent
            => last'.error.type = "InternalError"
       /\ recs[last'.self].from_record # NoParent
            => last'.error = NoError /\ last'.result \in Seq(Nat \X IdDomain)]_vars

\* C9's case: a -= on the child returned a list that differs from the
\* non-empty list the parent still stores.
C9_Witness ==
  /\ last.op = "__isub__"
  /\ last.error = NoError
  /\ PendingLists = {<< <<4, 1>> >>}
  /\ last.result = << <<3, 1>> >>

\* ------------------------------------------------------ claims on loading
\* The identifiers a caller's argument names, read off the argument itself.
Requested(input) == {input.v[i] : i \in DOMAIN input.v}
\* Python takes the argument as empty-ish: nothing is named, or it is the
\* scalar 0.
EmptyIsh(input) == Len(input.v) = 0 \/ (input.kind = "scalar" /\ input.v = <<0>>)

\* C3: browse(ids) with at least one identifier the remote read returns no
\* row for fails with the record-not-found error (Python's ValueError), which
\* names the entity and exactly the requested identifiers without a row; no
\* recordset is returned.
C3_BrowseNamesUnresolved ==
  (/\ last.op = "browse"
   /\ ~EmptyIsh(last.arg)
   /\ \E i \in Requested(last.arg) : i \notin DOMAIN last.reply.rows)
  => /\ last.result = 0
     /\ last.error.type = "ValueError"
     /\ last.error.model = classes[last.self].name
     /\ \A i \in IdDomain :
          i \in last.error.ids
            <=> (i \in Requested(last.arg) /\ i \notin DOMAIN last.reply.rows)

\* C3's case: browse([1, 2]) where the remote side only knows 2.
C3_Witness ==
  /\ last.op = "browse"
  /\ last.arg = [kind |-> "seq", v |-> <<1, 2>>]
  /\ DOMAIN last.reply.rows = {2}
  /\ last.error.ids = {1}

\* C7: browse of a non-empty argument whose identifiers all have a row gives
\* a recordset whose ids are the argument's identifiers in order, repeats
\* kept; its cache holds the row's value for every non-relational field and
\* every held identifier; the one remote call is a read of those ids that
\* asks for no relational field.
C7_BrowseLoadsBasicFields ==
  (/\ last.op = "browse"
   /\ ~EmptyIsh(last.arg)
   /\ \A i \in Requested(last.arg) : i \in DOMAIN last.reply.rows)
  => /\ last.error = NoError
     /\ last.result \in DOMAIN recs
     /\ recs[last.result].ids = last.arg.v
     /\ \A f \in Columns : ~Relation(f) =>
          \A i \in Requested(last.arg) :
            /\ i \in DOMAIN caches[recs[last.result].values][f]
            /\ caches[recs[last.result].values][f][i] = last.reply.rows[i][f]
     /\ Len(calls) = 1
     /\ calls[1].method = "read"
     /\ calls[1].args[1] = last.arg.v
     /\ \A f \in calls[1].args[2] : ~Relation(f)

\* C7's case: browse([2, 1, 2]) or browse([2, 2]): a repeat, all resolved.
C7_Witness ==
  /\ last.op = "browse"
  /\ last.arg = [kind |-> "seq", v |-> <<2, 2>>]
  /\ last.error = NoError
  /\ recs[last.result].ids = <<2, 2>>
  /\ caches[recs[last.result].values]["name"][2] = "y"

\* C10: after the load routine ran again on a recordset, the cache holds the
\* freshly read value for every held identifier and non-relational field, and
\* no pending edit for a held identifier is left in the pending-write buffer.
C10_RevertDiscardsPending ==
  (last.op = "_init_values" /\ last.error = NoError)
  => /\ \A f \in Columns : ~Relation(f) =>
          \A i \in Range(recs[last.self].ids) :
            caches[recs[last.self].values][f][i] = last.reply.rows[i][f]
     /\ \A f \in Columns : \A i \in Range(recs[last.self].ids) :
          i \notin DOMAIN writes[recs[last.self].values_to_write][f]

====
